---- MODULE Spec2Model ----
(***************************************************************************)
(* Model of the table transaction commit protocol                          *)
(* (iceberg-rust/src/table/transaction/mod.rs) and of the storage table    *)
(* refresh and staleness protocol                                          *)
(* (iceberg-rust/src/materialized_view/storage_table.rs).                  *)
(*                                                                         *)
(* One table identifier is shared by all clients.  The catalog holds its   *)
(* current metadata location, the object store holds the metadata files.   *)
(* Every client owns a Table handle (metadata + metadata_location) and     *)
(* runs commit or full_refresh on it one await point at a time, or asks    *)
(* base_tables for the staleness of the base table "db.t1".                *)
(***************************************************************************)
EXTENDS Integers, Sequences, FiniteSets, TLC

\* ------------------------------------------------------------------ bounds
\* calls of commit and full_refresh the clients start altogether
MaxCalls == 2
\* longest operation queue of a caller's transaction
MaxOps == 2
\* highest snapshot id the base table db.t1 reaches
MaxBaseSnap == 2
\* most levels a caller gives to Namespace::try_new
MaxLevels == 2
\* longest token a caller gives to Namespace::from_url_encoded
MaxTokenLen == 3

\* ------------------------------------------------------- program constants
\* snapshot id meaning "never captured" (storage_table.rs:116)
Sentinel == -1
VERSION_KEY == "version-id"
BASE_TABLES_KEY == "base-tables"

Client == {"c1", "c2"}
\* Option::None of current_snapshot
NoSnapshot == <<>>
Absent == <<>>
Keys == {VERSION_KEY, BASE_TABLES_KEY}
\* the only base table of the view, as the catalog knows it
BaseIdent == <<"db", "t1">>
\* what the relation extractor returns for the defining query text
Relations == << <<"cat", "db", "t1">> >>
NoLoc == <<>>

\* ---------------------------------------------------------------- metadata
EmptySummary == [k \in Keys |-> Absent]

\* TableMetadataBuilder::default(): every field the builder is not given
DefaultMetadata ==
    [format_version |-> 2, location |-> "wh", last_sequence_number |-> 0,
     snapshots |-> <<>>, schemas |-> {}, current_schema_id |-> 0,
     partition_specs |-> {}, default_spec_id |-> 0]

\* the table as it was created: schema 0, partition specs 0 and 1, no snapshot
InitMetadata ==
    [DefaultMetadata EXCEPT !.schemas = {0}, !.partition_specs = {0, 1}]

HasSnapshot(m) == Len(m.snapshots) > 0
\* TableMetadata::current_snapshot(None)
current_snapshot(m) == m.snapshots[Len(m.snapshots)]

\* Table::increment_sequence_number
increment_sequence_number(m) ==
    [m EXCEPT !.last_sequence_number = @ + 1]

\* Table::new_snapshot: a fresh snapshot, summary initially empty
new_snapshot(m) ==
    [m EXCEPT !.snapshots =
        Append(@, [snapshot_id |-> m.last_sequence_number,
                   files |-> {}, summary |-> EmptySummary])]

\* ---------------------------------------------------------------- operations
UpdateSchema(s) == [type |-> "UpdateSchema", arg |-> s]
UpdateSpec(id) == [type |-> "UpdateSpec", arg |-> id]
NewAppend(files) == [type |-> "NewAppend", arg |-> files]
UpdateProperties(entries) == [type |-> "UpdateProperties", arg |-> entries]

IsAppend(op) == op.type = "NewAppend"

RECURSIVE MergeEntries(_, _)
MergeEntries(summary, entries) ==
    IF entries = <<>> THEN summary
    ELSE MergeEntries([summary EXCEPT ![Head(entries)[1]] = Head(entries)[2]],
                      Tail(entries))

\* Operation::execute: [ok, metadata]
Execute(op, m) ==
    CASE op.type = "UpdateSchema" ->
           [ok |-> TRUE,
            metadata |-> [m EXCEPT !.schemas = @ \cup {op.arg},
                                   !.current_schema_id = op.arg]]
      [] op.type = "UpdateSpec" ->
           IF op.arg \in m.partition_specs
           THEN [ok |-> TRUE, metadata |-> [m EXCEPT !.default_spec_id = op.arg]]
           ELSE [ok |-> FALSE, metadata |-> m]
      [] op.type = "NewAppend" ->
           [ok |-> TRUE,
            metadata |-> [m EXCEPT !.snapshots[Len(m.snapshots)].files =
                                       @ \cup op.arg]]
      [] op.type = "UpdateProperties" ->
           [ok |-> TRUE,
            metadata |->
               IF HasSnapshot(m)
               THEN [m EXCEPT !.snapshots[Len(m.snapshots)].summary =
                                  MergeEntries(@, op.arg)]
               ELSE m]

\* ------------------------------------------------------- catalog and store
\* metadata_file_location: <location>/metadata/<version>-<uuid>.metadata.json
MetadataFileLocation(m, uuid) == <<m.last_sequence_number, uuid>>

\* new_metadata_location(metadata): a fresh name under the next version
new_metadata_location(m, uuid) == <<m.last_sequence_number + 1, uuid>>

\* Catalog::update_table: compare-and-swap of the pointer. [ok, pointer]
update_table(pointer, new_location, previous_location) ==
    IF pointer = previous_location
    THEN [ok |-> TRUE, pointer |-> new_location]
    ELSE [ok |-> FALSE, pointer |-> pointer]

\* the Table the catalog builds from the file at a metadata location
LoadTable(files, location) ==
    [metadata |-> files[location], metadata_location |-> location]

\* ------------------------------------------------------ commit, step by step
\* an increment for every queued operation instead of one for the commit
BeginMetadataPerOperation(m, ops) ==
    LET m1 == [m EXCEPT !.last_sequence_number = @ + Len(ops)]
    IN IF \E i \in 1..Len(ops) : IsAppend(ops[i]) THEN new_snapshot(m1) ELSE m1

\* a new snapshot for every commit, with or without an append
BeginMetadataAlwaysSnapshot(m, ops) ==
    new_snapshot(increment_sequence_number(m))

\* commit lines 58-65: one increment, and one new snapshot if any append
BeginMetadata(m, ops) ==
    LET m1 == increment_sequence_number(m)
    IN IF \E i \in 1..Len(ops) : IsAppend(ops[i]) THEN new_snapshot(m1) ELSE m1

\* a fold that executes every operation, whatever the earlier ones returned
FoldStepNoShortCircuit(acc, op) ==
    LET r == Execute(op, acc.metadata)
    IN [ok |-> acc.ok /\ r.ok, metadata |-> r.metadata,
        executed |-> Append(acc.executed, op)]

\* one turn of the fold of lines 67-76: `table?` passes an earlier error
\* on without executing op, otherwise op.execute(table) runs
FoldStep(acc, op) ==
    IF ~acc.ok THEN acc
    ELSE LET r == Execute(op, acc.metadata)
         IN [ok |-> r.ok, metadata |-> r.metadata,
             executed |-> Append(acc.executed, op)]

\* futures::stream::iter(operations).fold(Ok(table), ..): [ok, metadata,
\* executed], the operations taken in queue order
RECURSIVE Fold(_, _)
Fold(acc, ops) ==
    IF ops = <<>> THEN acc ELSE Fold(FoldStep(acc, Head(ops)), Tail(ops))

\* commit lines 58-76 on the in-memory table: [ok, metadata, executed]
RunOperations(m, ops) ==
    Fold([ok |-> TRUE, metadata |-> BeginMetadata(m, ops), executed |-> <<>>],
         ops)

\* a fold whose error is dropped
AfterFoldIgnoringError(ok) == "put"

\* line 76: `.await?` returns the fold's error before anything is written
AfterFold(ok) == IF ok THEN "put" ELSE "return"

\* a put whose error is dropped
AfterPutIgnoringError(ok) == "swap"

\* lines 89-95: the swap is reached only through a successful put
AfterPut(ok) == IF ok THEN "swap" ELSE "return"

\* full_refresh lines 144-152: fresh metadata keeping format version,
\* location, schemas and partition specs of the existing metadata
RebuildMetadata(m) ==
    [DefaultMetadata EXCEPT
        !.format_version = m.format_version,
        !.location = m.location,
        !.schemas = m.schemas,
        !.current_schema_id = m.current_schema_id,
        !.partition_specs = m.partition_specs,
        !.default_spec_id = m.default_spec_id]

\* ------------------------------------------------------------ json encoding
\* snapshot ids a BaseTable record can carry
SnapshotIds == {Sentinel} \cup (1..MaxBaseSnap)

\* serde_json::to_string(&Vec<BaseTable>) as a string of tokens
RECURSIVE EncodeBaseTables(_)
EncodeBaseTables(list) ==
    IF list = <<>> THEN <<>>
    ELSE <<"{", "identifier", Head(list).identifier[1], Head(list).identifier[2],
           "snapshot-id", ToString(Head(list).snapshot_id), "}">>
         \o EncodeBaseTables(Tail(list))

BaseTablesJson(list) == <<"[">> \o EncodeBaseTables(list) \o <<"]">>

IsNumber(tok) == \E n \in SnapshotIds : ToString(n) = tok
ParseNumber(tok) == CHOOSE n \in SnapshotIds : ToString(n) = tok

\* serde_json::from_str::<Vec<BaseTable>>: [ok, value]
RECURSIVE DecodeItems(_)
DecodeItems(toks) ==
    IF toks = <<>> THEN [ok |-> TRUE, value |-> <<>>]
    ELSE IF Len(toks) >= 7 /\ toks[1] = "{" /\ toks[2] = "identifier"
            /\ toks[5] = "snapshot-id" /\ IsNumber(toks[6]) /\ toks[7] = "}"
         THEN LET rest == DecodeItems(SubSeq(toks, 8, Len(toks)))
              IN IF rest.ok
                 THEN [ok |-> TRUE,
                       value |-> <<[identifier |-> <<toks[3], toks[4]>>,
                                    snapshot_id |-> ParseNumber(toks[6])]>>
                                 \o rest.value]
                 ELSE rest
         ELSE [ok |-> FALSE, value |-> <<>>]

DecodeBaseTables(json) ==
    IF Len(json) >= 2 /\ json[1] = "[" /\ json[Len(json)] = "]"
    THEN DecodeItems(SubSeq(json, 2, Len(json) - 1))
    ELSE [ok |-> FALSE, value |-> <<>>]

\* serde_json::to_string(&VersionId)
VersionIdJson(v) == <<ToString(v)>>

\* -------------------------------------------------------------- base_tables
\* StorageTableState
Fresh == [state |-> "Fresh", id |-> <<>>]
Outdated(id) == [state |-> "Outdated", id |-> <<id>>]
Invalid == [state |-> "Invalid", id |-> <<>>]
Panic == [state |-> "panic", id |-> <<>>]

\* Outdated carrying the live snapshot id instead of the recorded one
ClassifyCarryingLive(recorded, live) ==
    IF recorded # <<>>
    THEN IF live = <<>> THEN Panic
         ELSE IF live[1] = recorded[1] THEN Fresh
         ELSE IF recorded[1] = Sentinel THEN Invalid
         ELSE Outdated(live[1])
    ELSE Invalid

\* a dependency without recorded id compared with the live snapshot
ClassifyUnrecordedAsFresh(recorded, live) ==
    IF recorded # <<>>
    THEN IF live = <<>> THEN Panic
         ELSE IF live[1] = recorded[1] THEN Fresh
         ELSE IF recorded[1] = Sentinel THEN Invalid
         ELSE Outdated(recorded[1])
    ELSE IF live = <<>> THEN Invalid ELSE Fresh

\* lines 107-123: recorded and live are Options (<<>> or <<id>>); unwrap()
\* of a base table without current snapshot aborts the call
Classify(recorded, live) ==
    IF recorded # <<>>
    THEN IF live = <<>> THEN Panic
         ELSE IF live[1] = recorded[1] THEN Fresh
         ELSE IF recorded[1] = Sentinel THEN Invalid
         ELSE Outdated(recorded[1])
    ELSE Invalid

\* ident.split('.').skip(1), joined again: the catalog name is dropped
SkipCatalog(ident) == Tail(ident)

RECURSIVE FromRelations(_)
FromRelations(rels) ==
    IF rels = <<>> THEN <<>>
    ELSE <<[identifier |-> SkipCatalog(Head(rels)), snapshot_id |-> <<>>]>>
         \o FromRelations(Tail(rels))

RECURSIVE FromRecords(_)
FromRecords(list) ==
    IF list = <<>> THEN <<>>
    ELSE <<[identifier |-> Head(list).identifier,
            snapshot_id |-> <<Head(list).snapshot_id>>]>>
         \o FromRecords(Tail(list))

\* a record that cannot be decoded taken for no record
DependenciesFallingBack(m) ==
    IF /\ HasSnapshot(m)
       /\ current_snapshot(m).summary[BASE_TABLES_KEY] # Absent
       /\ DecodeBaseTables(current_snapshot(m).summary[BASE_TABLES_KEY]).ok
    THEN LET d == DecodeBaseTables(current_snapshot(m).summary[BASE_TABLES_KEY])
         IN [ok |-> d.ok, value |-> FromRecords(d.value)]
    ELSE [ok |-> TRUE, value |-> FromRelations(Relations)]

\* lines 66-82: the dependency list, [ok, value]
Dependencies(m) ==
    IF HasSnapshot(m) /\ current_snapshot(m).summary[BASE_TABLES_KEY] # Absent
    THEN LET d == DecodeBaseTables(current_snapshot(m).summary[BASE_TABLES_KEY])
         IN [ok |-> d.ok, value |-> FromRecords(d.value)]
    ELSE [ok |-> TRUE, value |-> FromRelations(Relations)]

\* lines 86-128: resolve and classify each dependency in order, failing on
\* the first that errors. [kind, states]
RECURSIVE Resolve(_, _, _)
Resolve(deps, live, done) ==
    IF deps = <<>> THEN [kind |-> "ok", states |-> done]
    ELSE IF Head(deps).identifier # BaseIdent
         THEN [kind |-> "err", states |-> <<>>]
         ELSE LET st == Classify(Head(deps).snapshot_id, live)
              IN IF st = Panic
                 THEN [kind |-> "panic", states |-> <<>>]
                 ELSE Resolve(Tail(deps), live,
                              Append(done, [identifier |-> Head(deps).identifier,
                                            recorded |-> Head(deps).snapshot_id,
                                            live |-> live,
                                            state |-> st]))

base_tables(m, live) ==
    LET deps == Dependencies(m)
    IN IF deps.ok THEN Resolve(deps.value, live, <<>>)
       ELSE [kind |-> "err", states |-> <<>>]

\* --------------------------------------------------------------- Namespace
\* A string is a sequence of characters; a character is a one-letter string,
\* or a name in angle brackets for a character that has no letter.
\* "\u{1F}", the unit separator that joins the levels
US == "<US>"
\* U+FFFD, what a lossy UTF-8 decoding puts for bytes that are no character
Replacement == "<FFFD>"

HexDigit == {"0", "1", "2", "3", "4", "5", "6", "7", "8", "9",
             "A", "B", "C", "D", "E", "F"}

\* the bytes byte_serialize leaves as they are
Unreserved == HexDigit \cup {"n", "s", "*", "-", ".", "_"}

\* levels.join("\u{1F}")
RECURSIVE Join(_, _)
Join(levels, sep) ==
    IF levels = <<>> THEN <<>>
    ELSE IF Len(levels) = 1 THEN Head(levels)
    ELSE Head(levels) \o <<sep>> \o Join(Tail(levels), sep)

\* str.split(sep): always at least one piece
RECURSIVE Split(_, _)
Split(str, sep) ==
    IF \A i \in 1..Len(str) : str[i] # sep THEN <<str>>
    ELSE LET i == CHOOSE k \in 1..Len(str) :
                      str[k] = sep /\ \A j \in 1..(k - 1) : str[j] # sep
         IN <<SubSeq(str, 1, i - 1)>> \o Split(SubSeq(str, i + 1, Len(str)), sep)

\* the ASCII code of every character strings are written with here
CharOfByte ==
       (<<"1", "F">> :> US) @@ (<<"2", "6">> :> "&")
    @@ (<<"3", "D">> :> "=") @@ (<<"2", "5">> :> "%")
    @@ (<<"2", "B">> :> "+") @@ (<<"2", "0">> :> " ")
    @@ (<<"6", "E">> :> "n") @@ (<<"7", "3">> :> "s")
    @@ (<<"2", "A">> :> "*") @@ (<<"2", "D">> :> "-")
    @@ (<<"2", "E">> :> ".") @@ (<<"5", "F">> :> "_")
    @@ (<<"3", "0">> :> "0") @@ (<<"3", "1">> :> "1")
    @@ (<<"3", "2">> :> "2") @@ (<<"3", "3">> :> "3")
    @@ (<<"3", "4">> :> "4") @@ (<<"3", "5">> :> "5")
    @@ (<<"3", "6">> :> "6") @@ (<<"3", "7">> :> "7")
    @@ (<<"3", "8">> :> "8") @@ (<<"3", "9">> :> "9")
    @@ (<<"4", "1">> :> "A") @@ (<<"4", "2">> :> "B")
    @@ (<<"4", "3">> :> "C") @@ (<<"4", "4">> :> "D")
    @@ (<<"4", "5">> :> "E") @@ (<<"4", "6">> :> "F")

\* the character of a percent-encoded byte, decoded lossily: a byte of 0x80
\* and above alone is no UTF-8 character
ByteChar(hi, lo) ==
    IF <<hi, lo>> \in DOMAIN CharOfByte THEN CharOfByte[<<hi, lo>>]
    ELSE IF hi \in {"8", "9", "A", "B", "C", "D", "E", "F"} THEN Replacement
    ELSE ToString(<<hi, lo>>)

\* the UTF-8 bytes of U+FFFD, percent-encoded
ReplacementEncoded == <<"%", "E", "F", "%", "B", "F", "%", "B", "D">>

\* the two hex digits of a one-byte character
HexOf(ch) ==
    CHOOSE pair \in HexDigit \X HexDigit : ByteChar(pair[1], pair[2]) = ch

\* an encoder that lets every byte through
SerializeByteRaw(ch) == <<ch>>

\* url::form_urlencoded::byte_serialize, one byte
SerializeByte(ch) ==
    IF ch \in Unreserved THEN <<ch>>
    ELSE IF ch = " " THEN <<"+">>
    ELSE IF ch = Replacement THEN ReplacementEncoded
    ELSE <<"%">> \o HexOf(ch)

RECURSIVE byte_serialize(_)
byte_serialize(str) ==
    IF str = <<>> THEN <<>>
    ELSE SerializeByte(Head(str)) \o byte_serialize(Tail(str))

\* form_urlencoded's decode: "+" is a space, "%XY" is a byte, anything else
\* stands for itself
RECURSIVE Decode(_)
Decode(str) ==
    IF str = <<>> THEN <<>>
    ELSE IF /\ Len(str) >= 9
            /\ SubSeq(str, 1, 9) = ReplacementEncoded
    THEN <<Replacement>> \o Decode(SubSeq(str, 10, Len(str)))
    ELSE IF /\ Head(str) = "%" /\ Len(str) >= 3
            /\ str[2] \in HexDigit /\ str[3] \in HexDigit
    THEN <<ByteChar(str[2], str[3])>> \o Decode(SubSeq(str, 4, Len(str)))
    ELSE <<IF Head(str) = "+" THEN " " ELSE Head(str)>> \o Decode(Tail(str))

\* url::form_urlencoded::parse(input).next(): the first non-empty piece
\* between "&"s, cut at its first "=" and decoded; an Option of (name, value)
ParseNext(input) ==
    LET pieces == SelectSeq(Split(input, "&"), LAMBDA p : p # <<>>)
    IN IF pieces = <<>> THEN <<>>
       ELSE LET pair == Split(Head(pieces), "=")
            IN << <<Decode(pair[1]),
                    Decode(SubSeq(Head(pieces), Len(pair[1]) + 2,
                                  Len(Head(pieces))))>> >>

\* Result<Namespace, Error>
NsOk(levels) == [ok |-> TRUE, ns |-> levels]
NsErr == [ok |-> FALSE, ns |-> <<>>]

\* a constructor that looks at the first level alone
try_new_first_only(levels) ==
    IF levels # <<>> /\ Head(levels) = <<>> THEN NsErr ELSE NsOk(levels)

\* Namespace::try_new
try_new(levels) ==
    IF \E i \in 1..Len(levels) : levels[i] = <<>> THEN NsErr ELSE NsOk(levels)

\* Namespace::empty
empty == <<>>

\* Namespace::url_encode
url_encode(ns) == byte_serialize(Join(ns, US))

\* Namespace::from_url_encoded
from_url_encoded(namespace) ==
    LET first == ParseNext(namespace)
    IN IF first = <<>> THEN NsErr
       ELSE NsOk(Split(first[1][1], US))

\* ------------------------------------------------------------------- state
VARIABLES
    catalog,      \* the catalog's metadata location for the table identifier
    store,        \* object store: metadata location -> metadata file
    nextUuid,     \* source of fresh Uuid::new_v4 values
    baseSnap,     \* live current snapshot of the base table db.t1 (an Option)
    table,        \* each client's Table handle (self.table)
    rtable,       \* the local `table` of a running full_refresh
    args,         \* the arguments of the running or last full_refresh
    pc,           \* each client's position inside commit / full_refresh
    newLoc,       \* metadata_file_location of the running commit
    result,       \* what the last call returned
    call,         \* which call the client runs or ran last
    queued,       \* the operations as enqueued when commit was called
    executed,     \* the operations the fold executed, in order
    base,         \* the transaction's table metadata when commit was called
    txLoc,        \* that table's metadata_location when commit was called
    log,          \* the I/O calls of the running call, in order
    interLoc,     \* where the running full_refresh put its rebuilt metadata
    btResult,     \* what the base_tables call of this step returned, and to whom
    calls,        \* calls of commit and full_refresh started so far
    published,    \* every table version the catalog pointer was moved to
    nsLevels,     \* the levels a caller hands to Namespace::try_new
    nsToken,      \* the token a caller hands to from_url_encoded, or url_encode's
    nsStep,       \* how far the caller of the Namespace functions has got
    nsCtor,       \* the constructor the caller used
    nsResult,     \* what the constructor returned
    nsDecoded     \* what from_url_encoded returned for url_encode's token

vars == <<catalog, store, nextUuid, baseSnap, table, rtable, args, pc,
          newLoc, result, call, queued, executed, base, txLoc, log,
          interLoc, btResult, calls, published,
          nsLevels, nsToken, nsStep, nsCtor, nsResult, nsDecoded>>

nsVars == <<nsLevels, nsToken, nsStep, nsCtor, nsResult, nsDecoded>>

InitLoc == <<0, 0>>
NoArgs == [files |-> {}, version_id |-> 0, base_tables |-> <<>>]
NoResult == [client |-> "none", kind |-> "none", states |-> <<>>]
InitTable == [metadata |-> InitMetadata, metadata_location |-> InitLoc]

\* the table as created, every client holding a handle of it
InitTables ==
    /\ catalog = InitLoc
    /\ store = (InitLoc :> InitMetadata)
    /\ nextUuid = 1
    /\ baseSnap = NoSnapshot
    /\ table = [c \in Client |-> InitTable]
    /\ rtable = [c \in Client |-> InitTable]
    /\ args = [c \in Client |-> NoArgs]
    /\ pc = [c \in Client |-> "idle"]
    /\ newLoc = [c \in Client |-> NoLoc]
    /\ result = [c \in Client |-> "none"]
    /\ call = [c \in Client |-> "none"]
    /\ queued = [c \in Client |-> <<>>]
    /\ executed = [c \in Client |-> <<>>]
    /\ base = [c \in Client |-> InitMetadata]
    /\ txLoc = [c \in Client |-> InitLoc]
    /\ log = [c \in Client |-> <<>>]
    /\ interLoc = [c \in Client |-> NoLoc]
    /\ btResult = NoResult
    /\ calls = 0
    /\ published = {InitTable}

\* no Namespace function has been called
NsIdle ==
    /\ nsLevels = <<>>
    /\ nsToken = <<>>
    /\ nsStep = "none"
    /\ nsCtor = "none"
    /\ nsResult = NsErr
    /\ nsDecoded = NsErr

Init == InitTables /\ NsIdle

\* ----------------------------------------------------------- what callers do
\* a base-tables value that is no list of BaseTable records
CorruptJson == <<"[", "{">>

\* the operations a transaction of SpecTx queues
OpChoices ==
    {UpdateSchema(1), UpdateSpec(7), NewAppend({"f1"})}

\* the operations the other writer of a storage table queues
WriterChoices ==
    {UpdateSchema(1), NewAppend({"f1"}),
     UpdateProperties(<< <<BASE_TABLES_KEY, CorruptJson>> >>)}

OpQueues == UNION {[1..n -> OpChoices] : n \in 0..MaxOps}
\* the other writer commits an empty transaction or a single operation; longer
\* queues are the subject of SpecTx
ShortQueues == {<<>>} \cup {<<op>> : op \in WriterChoices}

\* a summary update that stamps the version id alone
RefreshOperationsVersionOnly(a) ==
    <<NewAppend(a.files),
      UpdateProperties(<< <<VERSION_KEY, VersionIdJson(a.version_id)>> >>)>>

\* the operations full_refresh queues on the returned table (lines 175-184)
RefreshOperations(a) ==
    <<NewAppend(a.files),
      UpdateProperties(<< <<VERSION_KEY, VersionIdJson(a.version_id)>>,
                          <<BASE_TABLES_KEY, BaseTablesJson(a.base_tables)>> >>)>>

\* a swap that expects whatever the catalog holds at the moment
PreviousFromCatalog(t) == catalog

\* line 96: the location the swap expects the catalog to hold
PreviousMetadataFileLocation(t) == t.metadata_location

\* the table a running commit mutates: the caller's handle, or the local
\* table of full_refresh
InRefresh(c) == call[c] = "full_refresh"
Tbl(c) == IF InRefresh(c) THEN rtable[c] ELSE table[c]

\* a call returns r to its caller
Return(c, r) ==
    /\ pc' = [pc EXCEPT ![c] = "idle"]
    /\ result' = [result EXCEPT ![c] = r]

\* a call returns Err(r) through `?`; the locals of full_refresh are gone
Fail(c, r) ==
    /\ Return(c, r)
    /\ IF InRefresh(c)
       THEN /\ rtable' = [rtable EXCEPT ![c] = InitTable]
            /\ args' = [args EXCEPT ![c] = NoArgs]
       ELSE UNCHANGED <<rtable, args>>

\* what commit remembers of its call on the borrowed table t
Borrow(c, t, ops) ==
    /\ queued' = [queued EXCEPT ![c] = ops]
    /\ executed' = [executed EXCEPT ![c] = RunOperations(t.metadata, ops).executed]
    /\ base' = [base EXCEPT ![c] = t.metadata]
    /\ txLoc' = [txLoc EXCEPT ![c] = t.metadata_location]
    /\ newLoc' = [newLoc EXCEPT ![c] = NoLoc]

\* a fold that leaves out the last queued operation
MutatedWithoutLast(t, ops) ==
    [t EXCEPT !.metadata =
        RunOperations(t.metadata, SubSeq(ops, 1, Len(ops) - 1)).metadata]

\* the borrowed table after lines 58-76: it is mutated in place
Mutated(t, ops) ==
    [t EXCEPT !.metadata = RunOperations(t.metadata, ops).metadata]

\* the table version the running commit of c set out to publish at loc: its
\* base with every queued operation applied
Promised(c, loc) ==
    [metadata |-> RunOperations(base[c], queued[c]).metadata,
     metadata_location |-> loc]

\* Catalog::load_table on the table identifier: the caller gets a new handle
\* and what was remembered of its previous call is dropped
Load(c) ==
    /\ pc[c] = "idle"
    /\ table[c] # LoadTable(store, catalog)
    /\ table' = [table EXCEPT ![c] = LoadTable(store, catalog)]
    /\ call' = [call EXCEPT ![c] = "load"]
    /\ result' = [result EXCEPT ![c] = "ok"]
    /\ args' = [args EXCEPT ![c] = NoArgs]
    /\ queued' = [queued EXCEPT ![c] = <<>>]
    /\ executed' = [executed EXCEPT ![c] = <<>>]
    /\ base' = [base EXCEPT ![c] = InitMetadata]
    /\ txLoc' = [txLoc EXCEPT ![c] = InitLoc]
    /\ newLoc' = [newLoc EXCEPT ![c] = NoLoc]
    /\ interLoc' = [interLoc EXCEPT ![c] = NoLoc]
    /\ log' = [log EXCEPT ![c] = <<>>]
    /\ btResult' = NoResult
    /\ UNCHANGED <<catalog, store, nextUuid, baseSnap, rtable, pc, calls,
                   published>>
    /\ UNCHANGED nsVars

\* TableTransaction::new, the builder calls, and commit up to the put
CommitBegin(c, ops) ==
    /\ pc[c] = "idle"
    /\ calls < MaxCalls
    /\ calls' = calls + 1
    /\ call' = [call EXCEPT ![c] = "commit"]
    /\ Borrow(c, table[c], ops)
    /\ table' = [table EXCEPT ![c] = Mutated(@, ops)]
    /\ LET next == AfterFold(RunOperations(table[c].metadata, ops).ok)
       IN IF next = "return"
          THEN Return(c, "op_error")
          ELSE /\ pc' = [pc EXCEPT ![c] = next]
               /\ result' = [result EXCEPT ![c] = "none"]
    /\ log' = [log EXCEPT ![c] = <<>>]
    /\ args' = [args EXCEPT ![c] = NoArgs]
    /\ btResult' = NoResult
    /\ UNCHANGED <<catalog, store, nextUuid, baseSnap, rtable, interLoc, published>>
    /\ UNCHANGED nsVars

\* object_store.put of the serialized metadata: it succeeds or fails
Put(c, ok) ==
    /\ pc[c] = "put"
    /\ LET loc == MetadataFileLocation(Tbl(c).metadata, nextUuid)
       IN /\ IF ok
             THEN /\ store' = (loc :> Tbl(c).metadata) @@ store
                  /\ nextUuid' = nextUuid + 1
                  /\ newLoc' = [newLoc EXCEPT ![c] = loc]
             ELSE UNCHANGED <<store, nextUuid, newLoc>>
          /\ log' = [log EXCEPT ![c] =
                        Append(@, IF ok THEN "put_ok" ELSE "put_err")]
          /\ IF AfterPut(ok) = "return"
             THEN Fail(c, "put_error")
             ELSE /\ pc' = [pc EXCEPT ![c] = AfterPut(ok)]
                  /\ UNCHANGED <<result, rtable, args>>
    /\ btResult' = NoResult
    /\ UNCHANGED <<catalog, baseSnap, table, call, queued, executed, base,
                   txLoc, interLoc, calls, published>>
    /\ UNCHANGED nsVars

\* a handle left as the commit mutated it, the swap's table dropped
ReplacedKeepingHandle(old, new_table) == old

\* line 106: *table = new_table
Replaced(old, new_table) == new_table

\* a commit that tries the swap again when it was rejected
AfterRejectedSwapRetrying == "swap"

\* line 104: `.await?` returns the catalog's error to the caller
AfterRejectedSwap == "return"

\* catalog.update_table(identifier, new, previous) and *table = new_table
Swap(c) ==
    /\ pc[c] = "swap"
    /\ LET r == update_table(catalog, newLoc[c],
                             PreviousMetadataFileLocation(Tbl(c)))
       IN /\ catalog' = r.pointer
          /\ IF r.ok
             THEN /\ log' = [log EXCEPT ![c] = Append(@, "swap_ok")]
                  /\ published' = published \cup {Promised(c, newLoc[c])}
                  /\ IF InRefresh(c)
                     THEN /\ rtable' = [rtable EXCEPT ![c] =
                                Replaced(@, LoadTable(store, newLoc[c]))]
                          /\ pc' = [pc EXCEPT ![c] = "r_replace"]
                          /\ UNCHANGED <<table, result>>
                     ELSE /\ table' = [table EXCEPT ![c] =
                                Replaced(@, LoadTable(store, newLoc[c]))]
                          /\ Return(c, "ok")
                          /\ UNCHANGED rtable
                  /\ UNCHANGED args
             ELSE /\ log' = [log EXCEPT ![c] = Append(@, "swap_err")]
                  /\ IF AfterRejectedSwap = "return"
                     THEN Fail(c, "conflict")
                     ELSE /\ pc' = [pc EXCEPT ![c] = AfterRejectedSwap]
                          /\ UNCHANGED <<result, rtable, args>>
                  /\ UNCHANGED <<table, published>>
    /\ btResult' = NoResult
    /\ UNCHANGED <<store, nextUuid, baseSnap, newLoc, call, queued, executed,
                   base, txLoc, interLoc, calls>>
    /\ UNCHANGED nsVars

\* lines 157-159 of full_refresh: the swap only after a successful put
RefreshAfterPut(ok) == IF ok THEN "r_swap" ELSE "return"

\* full_refresh up to and including the put of the rebuilt metadata
RefreshPut(c, a, ok) ==
    /\ pc[c] = "idle"
    /\ calls < MaxCalls
    /\ calls' = calls + 1
    /\ call' = [call EXCEPT ![c] = "full_refresh"]
    /\ LET loc == new_metadata_location(table[c].metadata, nextUuid)
       IN IF ok
          THEN /\ store' = (loc :> RebuildMetadata(table[c].metadata)) @@ store
               /\ nextUuid' = nextUuid + 1
               /\ interLoc' = [interLoc EXCEPT ![c] = loc]
          ELSE /\ interLoc' = [interLoc EXCEPT ![c] = NoLoc]
               /\ UNCHANGED <<store, nextUuid>>
    /\ log' = [log EXCEPT ![c] = <<IF ok THEN "put_ok" ELSE "put_err">>]
    /\ IF RefreshAfterPut(ok) = "return"
       THEN /\ Return(c, "put_error")
            /\ args' = [args EXCEPT ![c] = NoArgs]
       ELSE /\ pc' = [pc EXCEPT ![c] = RefreshAfterPut(ok)]
            /\ result' = [result EXCEPT ![c] = "none"]
            /\ args' = [args EXCEPT ![c] = a]
    /\ Borrow(c, table[c], <<>>)
    /\ btResult' = NoResult
    /\ UNCHANGED <<catalog, baseSnap, table, rtable, published>>
    /\ UNCHANGED nsVars

\* lines 160-186: the first swap, then the transaction on the returned table
\* up to its put
RefreshSwap(c) ==
    /\ pc[c] = "r_swap"
    /\ LET r == update_table(catalog, interLoc[c], table[c].metadata_location)
           t == LoadTable(store, interLoc[c])
           ops == RefreshOperations(args[c])
           next == AfterFold(RunOperations(t.metadata, ops).ok)
       IN /\ catalog' = r.pointer
          /\ IF r.ok
             THEN /\ log' = [log EXCEPT ![c] = Append(@, "swap_ok")]
                  /\ published' = published \cup
                        {[metadata |-> RebuildMetadata(base[c]),
                          metadata_location |-> interLoc[c]]}
                  /\ Borrow(c, t, ops)
                  /\ IF next = "return"
                     THEN Fail(c, "op_error")
                     ELSE /\ pc' = [pc EXCEPT ![c] = next]
                          /\ rtable' = [rtable EXCEPT ![c] = Mutated(t, ops)]
                          /\ UNCHANGED <<result, args>>
             ELSE /\ log' = [log EXCEPT ![c] = Append(@, "swap_err")]
                  /\ Fail(c, "conflict")
                  /\ UNCHANGED <<queued, executed, base, txLoc, newLoc,
                                 published>>
    /\ btResult' = NoResult
    /\ UNCHANGED <<store, nextUuid, baseSnap, table, call, interLoc, calls>>
    /\ UNCHANGED nsVars

\* lines 187-190: self is replaced, then the old table is dropped, which
\* succeeds or fails
RefreshReplace(c, ok) ==
    /\ pc[c] = "r_replace"
    /\ table' = [table EXCEPT ![c] = rtable[c]]
    /\ rtable' = [rtable EXCEPT ![c] = InitTable]
    /\ Return(c, IF ok THEN "ok" ELSE "drop_error")
    /\ args' = [args EXCEPT ![c] = IF ok THEN @ ELSE NoArgs]
    /\ btResult' = NoResult
    /\ UNCHANGED <<catalog, store, nextUuid, baseSnap, newLoc, call, queued,
                   executed, base, txLoc, log, interLoc, calls, published>>
    /\ UNCHANGED nsVars

\* StorageTable::base_tables(None) on the client's handle
BaseTables(c) ==
    /\ pc[c] = "idle"
    /\ btResult' = [client |-> c] @@ base_tables(table[c].metadata, baseSnap)
    /\ UNCHANGED <<catalog, store, nextUuid, baseSnap, table, rtable, args,
                   pc, newLoc, result, call, queued, executed, base, txLoc,
                   log, interLoc, calls, published>>
    /\ UNCHANGED nsVars

\* somebody commits an append to the base table db.t1
AdvanceBase ==
    /\ \/ baseSnap = <<>> /\ baseSnap' = <<1>>
       \/ baseSnap # <<>> /\ baseSnap[1] < MaxBaseSnap
          /\ baseSnap' = <<baseSnap[1] + 1>>
    /\ btResult' = NoResult
    /\ UNCHANGED <<catalog, store, nextUuid, table, rtable, args, pc, newLoc,
                   result, call, queued, executed, base, txLoc, log, interLoc,
                   calls, published>>
    /\ UNCHANGED nsVars

\* the arguments callers give full_refresh
RefreshArgs ==
    {[files |-> {"f2"}, version_id |-> 1,
      base_tables |-> <<[identifier |-> BaseIdent, snapshot_id |-> s]>>] :
        s \in SnapshotIds}

\* the holder of the StorageTable, and another writer of the same table
Owner == "c1"
Writer == "c2"

\* ------------------------------------------- callers of the Namespace functions
\* the strings a caller gives as levels
LevelChoices ==
    {<<>>, <<"n">>, <<"n", "s">>, <<US>>, <<"n", US, "s">>, <<"&", "=">>,
     <<"%", "1", "F">>, <<"+", " ">>}

LevelInputs == UNION {[1..k -> LevelChoices] : k \in 0..MaxLevels}

\* the characters of the tokens a caller gives to from_url_encoded
TokenChars == {"n", "%", "1", "F", "&", "=", "+"}

Tokens == UNION {[1..k -> TokenChars] : k \in 0..MaxTokenLen}

\* a caller holds levels or a token and has called nothing yet
InitNamespace ==
    /\ nsLevels \in LevelInputs
    /\ nsToken \in Tokens
    /\ nsLevels = <<>> \/ nsToken = <<>>
    /\ nsStep = "start"
    /\ nsCtor = "none"
    /\ nsResult = NsErr
    /\ nsDecoded = NsErr

Construct(ctor, r) ==
    /\ nsStep = "start"
    /\ nsCtor' = ctor
    /\ nsResult' = r
    /\ nsStep' = IF r.ok THEN "made" ELSE "error"
    /\ UNCHANGED <<nsLevels, nsToken, nsDecoded>>
    /\ UNCHANGED <<catalog, store, nextUuid, baseSnap, table, rtable, args, pc,
                   newLoc, result, call, queued, executed, base, txLoc, log,
                   interLoc, btResult, calls, published>>

TryNew ==
    /\ nsToken = <<>>
    /\ Construct("try_new", try_new(nsLevels))

Empty ==
    /\ nsToken = <<>> /\ nsLevels = <<>>
    /\ Construct("empty", NsOk(empty))

FromUrlEncoded ==
    /\ nsLevels = <<>>
    /\ Construct("from_url_encoded", from_url_encoded(nsToken))

\* url_encode of the namespace the constructor returned
UrlEncode ==
    /\ nsStep = "made"
    /\ nsToken' = url_encode(nsResult.ns)
    /\ nsStep' = "encoded"
    /\ UNCHANGED <<nsLevels, nsCtor, nsResult, nsDecoded>>
    /\ UNCHANGED <<catalog, store, nextUuid, baseSnap, table, rtable, args, pc,
                   newLoc, result, call, queued, executed, base, txLoc, log,
                   interLoc, btResult, calls, published>>

\* from_url_encoded of the token url_encode returned
DecodeEncoded ==
    /\ nsStep = "encoded"
    /\ nsDecoded' = from_url_encoded(nsToken)
    /\ nsStep' = "decoded"
    /\ UNCHANGED <<nsLevels, nsToken, nsCtor, nsResult>>
    /\ UNCHANGED <<catalog, store, nextUuid, baseSnap, table, rtable, args, pc,
                   newLoc, result, call, queued, executed, base, txLoc, log,
                   interLoc, btResult, calls, published>>

\* -------------------------------------------------------------------- claims
Returned(c, what) == pc[c] = "idle" /\ call[c] = what

\* two transactions built from the same loaded table state, both returned
SameLoadedState(c, d) ==
    /\ c # d
    /\ Returned(c, "commit") /\ Returned(d, "commit")
    /\ txLoc[c] = txLoc[d]
    /\ base[c] = store[txLoc[c]] /\ base[d] = store[txLoc[d]]

ReachedSwap(c) == result[c] \in {"ok", "conflict"}

WinsOver(w, l) ==
    /\ result[w] = "ok" /\ result[l] = "conflict"
    /\ catalog = newLoc[w]
    /\ LoadTable(store, catalog) = Promised(w, newLoc[w])

\* C1: two transactions built from the same loaded table state never both
\* succeed; when both reach the swap exactly one succeeds, the other gets an
\* error, the catalog points at the winner's new metadata location and the
\* table loaded from the catalog is the loaded state with the winner's
\* operations, and only those, applied.
C1_ExactlyOneCommitWins ==
    \A c, d \in Client :
        SameLoadedState(c, d) =>
            /\ ~(result[c] = "ok" /\ result[d] = "ok")
            /\ (ReachedSwap(c) /\ ReachedSwap(d)) =>
                   (WinsOver(c, d) \/ WinsOver(d, c))

C1_Witness ==
    \E c, d \in Client :
        /\ SameLoadedState(c, d)
        /\ WinsOver(c, d)
        /\ queued[c] # <<>> /\ queued[d] # <<>> /\ queued[c] # queued[d]

\* C2: when the catalog swap of a commit fails, the caller's Table metadata
\* is what it was before commit was called, and the catalog does not point
\* at the metadata file this commit wrote.
C2_FailedSwapLeavesTableUnchanged ==
    \A c \in Client :
        (Returned(c, "commit") /\ result[c] = "conflict") =>
            /\ table[c].metadata = base[c]
            /\ catalog # newLoc[c]

\* C3: when full_refresh or commit returns, whatever step failed, the
\* catalog does not point at an intermediate table: not at the rebuilt
\* metadata without snapshot that this full_refresh wrote, and not at the
\* file of a commit that returned an error.
C3_NoIntermediateTableAtReturn ==
    \A c \in Client :
        /\ (Returned(c, "full_refresh") /\ interLoc[c] # NoLoc) =>
               catalog # interLoc[c]
        /\ (Returned(c, "commit") /\ result[c] # "ok" /\ newLoc[c] # NoLoc) =>
               catalog # newLoc[c]

\* C4: after a successful commit the table's sequence number is the one it
\* had when commit was called plus exactly one, whatever was queued.
C4_SequenceNumberPlusOne ==
    \A c \in Client :
        (Returned(c, "commit") /\ result[c] = "ok") =>
            table[c].metadata.last_sequence_number =
                base[c].last_sequence_number + 1

C4_Witness ==
    \E c, d \in Client :
        /\ Returned(c, "commit") /\ result[c] = "ok" /\ Len(queued[c]) = 0
        /\ Returned(d, "commit") /\ result[d] = "ok" /\ Len(queued[d]) = MaxOps
        /\ base[d].last_sequence_number > 0

\* C5: over every pointer swap published for the table identifier, the
\* sequence number of the metadata the catalog points at never decreases.
C5_SequenceNumberNeverDecreases ==
    [][store'[catalog'].last_sequence_number
          >= store[catalog].last_sequence_number]_vars

UnknownSpec(op, m) == op.type = "UpdateSpec" /\ op.arg \notin m.partition_specs

HasUnknownSpec(c) ==
    \E i \in 1..Len(queued[c]) : UnknownSpec(queued[c][i], base[c])

\* C6: a commit whose queue holds an UpdateSpec with an unknown spec id
\* fails, and at no point of it was the object store written or the catalog
\* called, whatever is queued before or after that operation.
C6_UnknownSpecFailsBeforeIo ==
    \A c \in Client :
        (call[c] = "commit" /\ HasUnknownSpec(c)) =>
            /\ pc[c] = "idle" /\ result[c] = "op_error"
            /\ log[c] = <<>> /\ newLoc[c] = NoLoc

C6_Witness ==
    \E c \in Client :
        /\ Returned(c, "commit") /\ result[c] = "op_error"
        /\ Len(queued[c]) = 2
        /\ ~UnknownSpec(queued[c][1], base[c])
        /\ UnknownSpec(queued[c][2], base[c])
        /\ table[c].metadata # base[c]

Last(seq) == seq[Len(seq)]
IsSwapEvent(e) == e \in {"swap_ok", "swap_err"}

\* every update_table call directly follows a successful put, and nothing
\* follows a failed put
PutThenSwap(c) ==
    /\ \A i \in 1..Len(log[c]) :
          /\ IsSwapEvent(log[c][i]) => (i > 1 /\ log[c][i - 1] = "put_ok")
          /\ log[c][i] = "put_err" => i = Len(log[c])
    /\ pc[c] \in {"swap", "r_swap"} =>
          (log[c] # <<>> /\ Last(log[c]) = "put_ok")
    /\ pc[c] = "swap" => newLoc[c] \in DOMAIN store
    /\ pc[c] = "r_swap" => interLoc[c] \in DOMAIN store

PutFails(c) == Len(log'[c]) = Len(log[c]) + 1 /\ Last(log'[c]) = "put_err"

\* C7: in every commit and every full_refresh update_table is called only
\* after the put of the new metadata file succeeded; a failed put ends the
\* call with no update_table call and the catalog pointer as it was.
C7_SwapOnlyAfterPut ==
    /\ [](\A c \in Client : PutThenSwap(c))
    /\ [][\A c \in Client :
            PutFails(c) => (catalog' = catalog /\ pc'[c] = "idle"
                            /\ result'[c] = "put_error")]_vars

C7_Witness ==
    /\ Returned(Owner, "full_refresh") /\ result[Owner] = "put_error"
    /\ log[Owner] = <<"put_ok", "swap_ok", "put_err">>
    /\ Returned(Writer, "commit") /\ log[Writer] = <<"put_ok", "swap_err">>

\* C8: whoever loads the table from the catalog, at any point of any
\* commit, gets a table version that is complete: the table as created, or
\* the base of a commit with all its queued operations applied, read from a
\* file that is written.
C8_ReadersSeeCompleteMetadata ==
    /\ catalog \in DOMAIN store
    /\ LoadTable(store, catalog) \in published
    /\ \A c \in Client :
          Returned(c, "load") =>
              (table[c] \in published /\ table[c].metadata_location \in DOMAIN store)

C8_Witness ==
    \E c, d \in Client :
        /\ Returned(c, "load") /\ table[c].metadata_location # InitLoc
        /\ table[c].metadata.last_sequence_number = 1
        /\ pc[d] = "swap" /\ Len(queued[d]) = MaxOps
        /\ table[d].metadata # table[c].metadata

Recorded(e) == e.recorded[1]
Live(e) == e.live[1]

\* C9: for a dependency with a recorded snapshot id, base_tables returns
\* Fresh when the recorded id is the base table's live current snapshot id,
\* Invalid when it is the sentinel, and Outdated(recorded id) otherwise.
C9_Classification ==
    btResult.kind = "ok" =>
        \A i \in 1..Len(btResult.states) :
            LET e == btResult.states[i]
            IN e.recorded # <<>> =>
                  /\ e.live # <<>>
                  /\ Recorded(e) = Live(e) => e.state = Fresh
                  /\ Recorded(e) = Sentinel => e.state = Invalid
                  /\ Recorded(e) \notin {Live(e), Sentinel} =>
                         e.state = Outdated(Recorded(e))

C9_Witness ==
    /\ btResult.kind = "ok"
    /\ \E i \in 1..Len(btResult.states) :
          /\ btResult.states[i].recorded # <<>>
          /\ btResult.states[i].state.state = "Outdated"

\* the handle of c is the one its last call, a successful full_refresh that
\* was given (db.t1, s), left behind
RefreshedWith(c, s) ==
    /\ Returned(c, "full_refresh") /\ result[c] = "ok"
    /\ args[c].base_tables = <<[identifier |-> BaseIdent, snapshot_id |-> s]>>

\* C10: after a successful full_refresh given base_tables = [(t, s)], a
\* base_tables(None) call returns Fresh for t while t's live current snapshot
\* id is s, and Outdated(s) once it is another id: the answer follows the
\* live catalog.
C10_FreshUntilBaseAdvances ==
    \A c \in Client, s \in 1..MaxBaseSnap :
        (btResult.client = c /\ RefreshedWith(c, s) /\ baseSnap # NoSnapshot) =>
            /\ btResult.kind = "ok"
            /\ Len(btResult.states) = 1
            /\ btResult.states[1].identifier = BaseIdent
            /\ baseSnap[1] = s => btResult.states[1].state = Fresh
            /\ baseSnap[1] # s => btResult.states[1].state = Outdated(s)

C10_Witness ==
    \E c \in Client, s \in 1..MaxBaseSnap :
        /\ btResult.client = c /\ RefreshedWith(c, s)
        /\ baseSnap # NoSnapshot /\ baseSnap[1] > s
        /\ btResult.states[1].state = Outdated(s)

CommitSucceeds(c) ==
    /\ pc[c] = "swap" /\ call[c] = "commit"
    /\ pc'[c] = "idle" /\ result'[c] = "ok"

\* C11: when commit returns success the caller's handle is the table the
\* catalog swap returned: its metadata location is the location this commit
\* wrote, which the catalog points at when the swap is done, and its metadata
\* is the metadata that was written there.
C11_HandleIsSwappedTable ==
    /\ [](\A c \in Client :
            (Returned(c, "commit") /\ result[c] = "ok") =>
                /\ table[c].metadata_location = newLoc[c]
                /\ newLoc[c] \in DOMAIN store
                /\ table[c].metadata = store[newLoc[c]]
                /\ table[c] = Promised(c, newLoc[c]))
    /\ [][\A c \in Client :
            CommitSucceeds(c) =>
                /\ catalog' = newLoc[c]
                /\ table'[c].metadata_location = catalog']_vars

C11_Witness ==
    \E c \in Client :
        /\ Returned(c, "commit") /\ result[c] = "ok"
        /\ Len(queued[c]) = MaxOps
        /\ table[c].metadata_location # txLoc[c]
        /\ catalog # newLoc[c]

NoEmptyLevel(levels) == \A i \in 1..Len(levels) : levels[i] # <<>>

\* C12: for every validly constructed namespace (try_new's, or the empty
\* one) from_url_encoded(url_encode(ns)) succeeds and equals ns.
C12_RoundTrip ==
    (nsStep = "decoded" /\ nsCtor \in {"try_new", "empty"}) =>
        (nsDecoded.ok /\ nsDecoded.ns = nsResult.ns)

\* C13: try_new returns an error exactly when one of the given levels is the
\* empty string, and otherwise a namespace whose levels are the given ones
\* in the given order.
C13_TryNewFailsIffEmptyLevel ==
    nsCtor = "try_new" =>
        /\ nsResult.ok <=> NoEmptyLevel(nsLevels)
        /\ nsResult.ok => nsResult.ns = nsLevels

C13_Witness ==
    /\ nsCtor = "try_new" /\ ~nsResult.ok
    /\ Len(nsLevels) = MaxLevels
    /\ nsLevels[1] # <<>> /\ nsLevels[MaxLevels] = <<>>

\* C14: no namespace a constructor returns (try_new, empty, from_url_encoded
\* on any token) has an empty level; a token that would decode to an empty
\* level is rejected.
C14_NoEmptyLevelEver ==
    /\ (nsCtor # "none" /\ nsResult.ok) => NoEmptyLevel(nsResult.ns)
    /\ (nsStep = "decoded" /\ nsDecoded.ok) => NoEmptyLevel(nsDecoded.ns)

\* the position of the first queued operation that fails, 0 if none does
FirstFailing(c) ==
    IF HasUnknownSpec(c)
    THEN CHOOSE i \in 1..Len(queued[c]) :
            /\ UnknownSpec(queued[c][i], base[c])
            /\ \A j \in 1..(i - 1) : ~UnknownSpec(queued[c][j], base[c])
    ELSE 0

SchemaUpdatedBefore(c, k) ==
    \E j \in 1..(k - 1) : queued[c][j].type = "UpdateSchema"

\* C15: commit executes the queued operations one at a time in the order
\* they were enqueued and stops at the first one that fails: nothing after
\* it is executed, no metadata file is written and no swap is attempted.
C15_InOrderUntilFirstFailure ==
    \A c \in Client :
        call[c] = "commit" =>
            LET k == FirstFailing(c)
            IN /\ k = 0 => executed[c] = queued[c]
               /\ k > 0 =>
                    /\ executed[c] = SubSeq(queued[c], 1, k)
                    /\ pc[c] = "idle" /\ result[c] = "op_error"
                    /\ log[c] = <<>> /\ newLoc[c] = NoLoc
                    /\ ~SchemaUpdatedBefore(c, k) =>
                          table[c].metadata.current_schema_id =
                              base[c].current_schema_id

C15_Witness ==
    \E c \in Client :
        /\ Returned(c, "commit") /\ result[c] = "op_error"
        /\ FirstFailing(c) = 1 /\ Len(queued[c]) = MaxOps
        /\ queued[c][MaxOps].type = "UpdateSchema"
        /\ executed[c] = <<queued[c][1]>>

Appends(c) == {i \in 1..Len(queued[c]) : IsAppend(queued[c][i])}

SnapshotsCreated(c) == Len(table[c].metadata.snapshots) - Len(base[c].snapshots)

\* C16: a commit creates a new snapshot exactly when at least one queued
\* operation is a NewAppend, and then exactly one however many are queued;
\* a commit with no NewAppend creates none.
C16_OneSnapshotIffAppend ==
    \A c \in Client :
        call[c] = "commit" =>
            /\ SnapshotsCreated(c) = IF Appends(c) # {} THEN 1 ELSE 0
            /\ (result[c] = "ok" /\ Appends(c) # {}) =>
                   /\ Len(store[newLoc[c]].snapshots) = Len(base[c].snapshots) + 1
                   /\ current_snapshot(store[newLoc[c]]).files = {"f1"}

C16_Witness ==
    \E c \in Client :
        /\ Returned(c, "commit") /\ result[c] = "ok"
        /\ Cardinality(Appends(c)) = MaxOps
        /\ SnapshotsCreated(c) = 1

C16_WitnessNoAppend ==
    \E c \in Client :
        /\ Returned(c, "commit") /\ result[c] = "ok"
        /\ queued[c] # <<>> /\ Appends(c) = {}
        /\ SnapshotsCreated(c) = 0

\* the value under base-tables in the current snapshot of c's handle
RecordedJson(c) ==
    IF HasSnapshot(table[c].metadata)
    THEN current_snapshot(table[c].metadata).summary[BASE_TABLES_KEY]
    ELSE Absent

\* C17: when the current snapshot's summary has a base-tables value that
\* cannot be decoded, base_tables returns an error: no dependency list from
\* the query text and no classification.
C17_CorruptRecordIsError ==
    \A c \in Client :
        (btResult.client = c /\ RecordedJson(c) = CorruptJson) =>
            (btResult.kind = "err" /\ btResult.states = <<>>)

C17_Witness ==
    \E c \in Client :
        /\ btResult.client = c /\ RecordedJson(c) = CorruptJson
        /\ btResult.kind = "err"

\* C18: with no current snapshot, or none that has a base-tables key,
\* base_tables takes the dependencies from the defining query text and gives
\* Invalid for each of them, whatever the base table's live snapshot is.
C18_UnrecordedIsInvalid ==
    \A c \in Client :
        (btResult.client = c /\ RecordedJson(c) = Absent) =>
            /\ btResult.kind = "ok"
            /\ Len(btResult.states) = Len(Relations)
            /\ \A i \in 1..Len(Relations) :
                  /\ btResult.states[i].identifier = SkipCatalog(Relations[i])
                  /\ btResult.states[i].state = Invalid

C18_Witness ==
    \E c \in Client :
        /\ btResult.client = c /\ RecordedJson(c) = Absent
        /\ HasSnapshot(table[c].metadata)
        /\ baseSnap # NoSnapshot
        /\ btResult.states[1].state = Invalid

\* C20: base_tables always ends by returning classifications or an error,
\* also when a dependency has a recorded snapshot id and the base table has
\* no current snapshot.
C20_BaseTablesAlwaysReturns ==
    btResult.kind \in {"none", "ok", "err"}

SwapEvents(c) == {i \in 1..Len(log[c]) : IsSwapEvent(log[c][i])}

SwapRejected(c) ==
    /\ pc[c] = "swap" /\ call[c] = "commit"
    /\ Len(log'[c]) = Len(log[c]) + 1 /\ Last(log'[c]) = "swap_err"

\* C19: a commit calls the catalog swap at most once; a rejected swap makes
\* it return the error without another attempt, the catalog pointer is the
\* one it was before the attempt, and the metadata file the commit wrote is
\* not what the catalog points at.
C19_RejectedSwapNoRetry ==
    /\ [](\A c \in Client :
            call[c] = "commit" =>
                /\ Cardinality(SwapEvents(c)) <= 1
                /\ result[c] = "conflict" =>
                     /\ pc[c] = "idle"
                     /\ newLoc[c] \in DOMAIN store
                     /\ catalog # newLoc[c])
    /\ [][\A c \in Client :
            SwapRejected(c) =>
                /\ catalog' = catalog
                /\ pc'[c] = "idle" /\ result'[c] = "conflict"]_vars

C19_Witness ==
    \E c \in Client :
        /\ Returned(c, "commit") /\ result[c] = "conflict"
        /\ log[c] = <<"put_ok", "swap_err">>
        /\ queued[c] # <<>>

\* ------------------------------------------------------------ specifications
\* the storage table: its owner refreshes it and asks for its base tables
\* while the other writer commits short transactions to the same identifier
Next ==
    \/ \E c \in Client : Load(c)
    \/ \E ops \in ShortQueues : CommitBegin(Writer, ops)
    \/ \E c \in Client, ok \in BOOLEAN : Put(c, ok)
    \/ \E c \in Client : Swap(c)
    \/ \E a \in RefreshArgs, ok \in BOOLEAN : RefreshPut(Owner, a, ok)
    \/ RefreshSwap(Owner)
    \/ \E ok \in BOOLEAN : RefreshReplace(Owner, ok)
    \/ BaseTables(Owner)
    \/ AdvanceBase

Spec == Init /\ [][Next]_vars

\* transactions alone: every client loads the table and commits any queue
NextTx ==
    \/ \E c \in Client : Load(c)
    \/ \E c \in Client, ops \in OpQueues : CommitBegin(c, ops)
    \/ \E c \in Client, ok \in BOOLEAN : Put(c, ok)
    \/ \E c \in Client : Swap(c)

SpecTx == Init /\ [][NextTx]_vars

\* the Namespace functions: a caller constructs a namespace, encodes it and
\* decodes the token again
NextNs ==
    \/ TryNew
    \/ Empty
    \/ FromUrlEncoded
    \/ UrlEncode
    \/ DecodeEncoded

InitNs == InitTables /\ InitNamespace

SpecNs == InitNs /\ [][NextNs]_vars
====
